---------------------------- MODULE Spec2Model ----------------------------
(***************************************************************************)
(* A model of studip-client's local metadata store (studip/database.py)    *)
(* and of the part of the application that opens, commits and clears it    *)
(* (studip/application.py).                                                *)
(*                                                                         *)
(* The store is an SQLite file.  `disk` is what the file holds, `conn` is  *)
(* what the open connection sees: the file plus the changes of the pending *)
(* transaction.  Python's sqlite3 opens a transaction before every         *)
(* INSERT/UPDATE/DELETE and ends it only in Connection.commit(); PRAGMA    *)
(* statements and executescript() write through to the file.               *)
(***************************************************************************)
EXTENDS Integers, Sequences, FiniteSets, TLC

VARIABLES
    file_name,   \* the path given to Database(file_name)
    disk,        \* the store file's committed contents
    backups,     \* the backup files beside the store: name -> contents
    conn,        \* the contents the connection sees (disk + pending transaction)
    pc,          \* the process: "closed" (not running), "init" (inside __init__), "open"
    db_version,  \* __init__'s local db_version
    steps,       \* the statements __init__ has executed since it read db_version
    error,       \* the exception that ended the last Database(file_name), "" if none
    call,        \* the call in progress, where its statements are separate steps
    race         \* two processes on one store file: the write lock and each
                 \* process's pending rows and resolve operation

vars == <<file_name, disk, backups, conn, pc, db_version, steps, error, call, race>>

-----------------------------------------------------------------------------
(* Bounds of the model                                                     *)

MaxVersion == 2         \* update_file is not called on a file at this version
MaxFolders == 2         \* folder rows in a session of file operations
MaxResolveFolders == 4  \* folder rows in a session of folder resolutions
MaxPathLen == 2         \* longest File.path
MaxStoredVersion == 14  \* largest user_version of the store files opened
MaxSemesters == 2       \* longest list passed to update_semester_list
MaxWords == 2           \* most words in a course name or file name

-----------------------------------------------------------------------------
(* Values                                                                  *)

\* Python None / SQL NULL in a text column.
NULL == "NULL"
\* SQL NULL in an integer column (rowids start at 1).
NoRow == 0

schema_version == 12

\* SyncMode = IntEnum("SyncMode", "NoSync Metadata Full"): values from 1.
NoSync == 1
Metadata == 2
Full == 3
SyncModes == {NoSync, Metadata, Full}

FileIds == {"f1", "f2"}
CourseIds == {"c1", "c2"}
ViewIds == {0, 1}
ViewNames == {"default", "alt"}
FolderNames == {"a", "b"}
\* local_date: a timestamp, or NoRow for NULL
Dates == {1}

RECURSIVE SeqsUpTo(_, _)
SeqsUpTo(S, n) ==
    IF n = 0 THEN {<<>>}
    ELSE LET shorter == SeqsUpTo(S, n - 1)
         IN shorter \cup {Append(p, x) : p \in shorter, x \in S}

Paths == SeqsUpTo(FolderNames, MaxPathLen)

\* The File objects passed to add_file / update_file: the fields the store reads.
\* Records of the metadata feed carry no local_date.  They are files of the
\* course "c1", which the store holds or not.
FileArgs == [id : FileIds, course : {"c1"}, path : SeqsUpTo({"a"}, MaxPathLen),
             local_date : {NoRow}]

ViewArgs == [id : ViewIds, name : ViewNames]

SemesterIds == {"s1", "s2"}
SemesterNames == {"WS", "SS"}

\* The Semester objects passed to update_semester_list.
SemesterArgs == [id : SemesterIds, name : SemesterNames, ord : {1}]

\* The semester every session of file operations starts with.
DefaultSemester == [id |-> "s1", name |-> "WS", ord |-> 1]

\* An optional text: Python None / SQL NULL, or a text (which may be "").
None == <<>>
Some(text) == <<text>>

\* `if text`: None and "" are false.
Truthy(opt) == opt # None /\ opt[1] # <<>>

\* A name is a sequence of words, a word a sequence of characters.
Words == {<<"l", "i", "n">>, <<"a", "l", "g">>, <<"n", "o", "t", "e", "s">>}

\* Course names and file names: at least one word.
Names == SeqsUpTo(Words, MaxWords) \ {<<>>}

\* Course types.
Types == {<<<<"l", "e", "c", "t", "u", "r", "e">>>>, <<<<"s", "e", "m", "i", "n", "a", "r">>>>}

DefaultName == <<<<"a", "l", "g">>>>
DefaultType == <<<<"l", "e", "c", "t", "u", "r", "e">>>>

\* The abbrev and type_abbrev arguments of Course(...): none, or an override.
Overrides == {None, Some(<<"x">>)}

\* The Course objects passed to add_course: the fields the claims read.
\* `semester` is the semester's name.
CourseArgs == [id : CourseIds, semester : SemesterNames, sync : SyncModes,
               name : {DefaultName}, abbrev : {None},
               type : {DefaultType}, type_abbrev : {None}]

\* The course with this id as the sessions of file operations add it.
Course(id) ==
    [id |-> id, semester |-> DefaultSemester.name, sync |-> Full,
     name |-> DefaultName, abbrev |-> None, type |-> DefaultType, type_abbrev |-> None]

DefaultView == [id |-> 0, name |-> "default"]

Max(S) == CHOOSE x \in S : \A y \in S : y <= x
Min(S) == CHOOSE x \in S : \A y \in S : x <= y

\* No call is in progress.
NoCall == [op |-> "", at |-> "", arg |-> NULL, value |-> NULL]

\* One process only.
NoRace == [lock |-> 0, procs |-> <<>>]

-----------------------------------------------------------------------------
(* The store's tables                                                      *)

\* An SQLite file with nothing in it: user_version 0, no tables.
EmptyStore ==
    [user_version |-> 0, layout |-> 0, views |-> {}, semesters |-> {},
     courses |-> {}, folders |-> {}, files |-> {}, checkouts |-> {}]

\* What a Database method does: the store afterwards, the exception it raised
\* ("" for a normal return) and the value it returned.
Ret(s, raised, value) == [store |-> s, raised |-> raised, value |-> value]

\* Every statement on a file without the tables fails (sqlite3.OperationalError).
HasTables(s) == s.layout = schema_version

\* INTEGER PRIMARY KEY: a new row gets the largest rowid + 1.
NextRowId(rows) == IF rows = {} THEN 1 ELSE Max({r.id : r \in rows}) + 1


-----------------------------------------------------------------------------
(* Database.query and the schema's constraints                             *)

\* Database.query called with keyword arguments on statement `after`:
\* a statement on a missing table raises; a constraint violation raises
\* sqlite3.IntegrityError inside query, which swallows it, so the statement
\* changes nothing and the call returns normally.
query(s, conflict, after) ==
    IF ~HasTables(s) THEN Ret(s, "OperationalError", NoRow)
    ELSE IF conflict THEN Ret(s, "", NoRow)
    ELSE Ret(after, "", NoRow)

\* views(id PRIMARY KEY, name UNIQUE)
views_conflict(s, view) ==
    \E v \in s.views : v.id = view.id \/ v.name = view.name

\* courses(id PRIMARY KEY)
courses_conflict(s, id) == \E c \in s.courses : c.id = id

\* courses.semester is a required column: a NULL semester is a constraint
\* violation.
courses_semester_conflict(semester) == semester = NULL

\* files(id PRIMARY KEY)
files_conflict(s, id) == \E f \in s.files : f.id = id

\* checkouts(view, file) with the composite key (view, file).  The foreign
\* keys are declared but connect() never turns foreign-key enforcement on.
checkouts_conflict(s, view_id, file_id) == <<view_id, file_id>> \in s.checkouts

\* The root folder of a newly inserted course: a folder row with no parent
\* that belongs to the course, recorded in courses.root.
root_folder(s, course_id) ==
    [id |-> NextRowId(s.folders), name |-> NULL, parent |-> NoRow,
     course |-> course_id]

-----------------------------------------------------------------------------
(* Semesters                                                               *)

\* An INSERT that leaves the row of an id that is already stored as it is.
insert_or_ignore_semester(s, semester) ==
    IF \E m \in s.semesters : m.id = semester.id THEN s
    ELSE [s EXCEPT !.semesters = @ \cup {semester}]

\* INSERT OR REPLACE INTO semesters (id, name, ord): the row with the same
\* primary key is deleted before the new one is inserted.
insert_or_replace_semester(s, semester) ==
    [s EXCEPT !.semesters = {m \in @ : m.id # semester.id} \cup {semester}]

\* query_multiple: executemany runs the statement once per semester, in order.
RECURSIVE query_multiple(_, _)
query_multiple(s, semesters) ==
    IF semesters = <<>> THEN s
    ELSE query_multiple(insert_or_replace_semester(s, Head(semesters)), Tail(semesters))

update_semester_list(s, semesters) ==
    IF ~HasTables(s) THEN Ret(s, "OperationalError", NoRow)
    ELSE Ret(query_multiple(s, semesters), "", NoRow)

-----------------------------------------------------------------------------
(* Courses                                                                 *)

\* (SELECT id FROM semesters WHERE name = :sem): a scalar subquery gives
\* the first row's id, NULL when there is no row.
semester_named(s, name) ==
    LET ids == {m.id : m \in {n \in s.semesters : n.name = name}}
    IN IF ids = {} THEN NULL ELSE CHOOSE i \in ids : TRUE

\* util.abbreviate_course_name: a deterministic function of the name,
\* here the initials of its words.
abbreviate_course_name(name) == [i \in 1..Len(name) |-> name[i][1]]

\* util.abbreviate_course_type: a deterministic function of the type,
\* here the initials of its words.
abbreviate_course_type(type) == [i \in 1..Len(type) |-> type[i][1]]

\* Course.abbrev
Course_abbrev(course) ==
    IF Truthy(course.abbrev) THEN course.abbrev[1]
    ELSE abbreviate_course_name(course.name)

\* Course.auto_abbrev
Course_auto_abbrev(course) == course.abbrev = None

\* Course.type_abbrev
Course_type_abbrev(course) ==
    IF Truthy(course.type_abbrev) THEN course.type_abbrev[1]
    ELSE abbreviate_course_type(course.type)

\* Course.auto_type_abbrev
Course_auto_type_abbrev(course) == course.type_abbrev = None

\* add_course writes the object's _abbrev and _type_abbrev as they are.
add_course(s, course) ==
    LET root == root_folder(s, course.id)
        semester == semester_named(s, course.semester)
    IN query(s, courses_conflict(s, course.id) \/ courses_semester_conflict(semester),
             [s EXCEPT !.courses = @ \cup {[id |-> course.id, root |-> root.id,
                                            semester |-> semester,
                                            name |-> course.name,
                                            abbrev |-> course.abbrev,
                                            type |-> course.type,
                                            type_abbrev |-> course.type_abbrev,
                                            sync |-> course.sync]},
                       !.folders = @ \cup {root}])

\* list_courses(full, ...) with the selected sync modes, as the set of the
\* ids of the courses it returns (the claims read membership, not order).
\* The full projection joins semesters: INNER JOIN ... ON s.id = c.semester.
list_courses(s, full, modes) ==
    {c.id : c \in {d \in s.courses :
                     /\ d.sync \in modes
                     /\ full => \E m \in s.semesters : m.id = d.semester}}

\* UPDATE courses SET number=..., name=:name, abbrev=:abbrev, type=:type,
\* type_abbrev=:type_abbrev, sync=:sync WHERE id=:id, where :abbrev and
\* :type_abbrev are the properties course.abbrev and course.type_abbrev.
update_course(s, course) ==
    query(s, FALSE,
          [s EXCEPT !.courses =
              {IF c.id = course.id
               THEN [c EXCEPT !.name = course.name,
                              !.abbrev = Some(Course_abbrev(course)),
                              !.type = course.type,
                              !.type_abbrev = Some(Course_type_abbrev(course)),
                              !.sync = course.sync]
               ELSE c : c \in @}])

\* get_course_details: the Course built from the row joined with its
\* semester; query raises QueryError when there is no such row.
get_course_details(s, course_id) ==
    LET rows == {c \in s.courses :
                   c.id = course_id /\ \E m \in s.semesters : m.id = c.semester}
    IN IF ~HasTables(s) THEN Ret(s, "OperationalError", NULL)
       ELSE IF rows = {} THEN Ret(s, "QueryError", NULL)
       ELSE LET c == CHOOSE r \in rows : TRUE
                m == CHOOSE n \in s.semesters : n.id = c.semester
            IN Ret(s, "", [id |-> course_id, semester |-> m.name, name |-> c.name,
                           abbrev |-> c.abbrev, type |-> c.type,
                           type_abbrev |-> c.type_abbrev, sync |-> c.sync])

delete_course(s, course_id) ==
    query(s, FALSE, [s EXCEPT !.courses = {c \in @ : c.id # course_id}])

-----------------------------------------------------------------------------
(* Folder resolution                                                       *)

\* SELECT id FROM folders WHERE parent = :par AND name = :name
\* (`parent = NULL` is true of no row).
query_subdirectory(s, parent, name) ==
    {f.id : f \in {g \in s.folders :
                      g.parent # NoRow /\ g.parent = parent /\ g.name = name}}

\* rows[0]: the statements have no ORDER BY; SQLite scans folders by rowid.
first_row(rows) == Min(rows)

\* An INSERT that stores the folder without its parent.
insert_folder_without_parent(s, name, parent) ==
    [s EXCEPT !.folders = @ \cup {[id |-> NextRowId(s.folders), name |-> name,
                                   parent |-> NoRow, course |-> NULL]}]

\* INSERT INTO folders (name, parent) VALUES (:name, :par)
insert_folder(s, name, parent) ==
    [s EXCEPT !.folders = @ \cup {[id |-> NextRowId(s.folders), name |-> name,
                                   parent |-> parent, course |-> NULL]}]

\* The loop of create_parent_for_file over the rest of the path.
RECURSIVE walk_path(_, _, _)
walk_path(s, parent, path) ==
    IF path = <<>> THEN Ret(s, "", parent)
    ELSE LET rows == query_subdirectory(s, parent, Head(path))
         IN IF rows # {} THEN walk_path(s, first_row(rows), Tail(path))
            ELSE LET s1 == insert_folder(s, Head(path), parent)
                     rows1 == query_subdirectory(s1, parent, Head(path))
                 IN IF rows1 = {} THEN Ret(s1, "IndexError", NoRow)
                    ELSE walk_path(s1, first_row(rows1), Tail(path))

\* A create_parent_for_file that inserts every folder of the path without
\* looking it up first.
RECURSIVE walk_path_no_lookup(_, _, _)
walk_path_no_lookup(s, parent, path) ==
    IF path = <<>> THEN Ret(s, "", parent)
    ELSE LET s1 == insert_folder(s, Head(path), parent)
         IN walk_path_no_lookup(s1, NextRowId(s.folders), Tail(path))

create_parent_for_file_no_lookup(s, course_id, path) ==
    LET rows == {c.root : c \in {d \in s.courses : d.id = course_id}}
    IN IF ~HasTables(s) THEN Ret(s, "OperationalError", NoRow)
       ELSE IF rows = {} THEN Ret(s, "IndexError", NoRow)
       ELSE walk_path_no_lookup(s, first_row(rows), path)

create_parent_for_file(s, course_id, path) ==
    LET rows == {c.root : c \in {d \in s.courses : d.id = course_id}}
    IN IF ~HasTables(s) THEN Ret(s, "OperationalError", NoRow)
       ELSE IF rows = {} THEN Ret(s, "IndexError", NoRow)
       ELSE walk_path(s, first_row(rows), path)

-----------------------------------------------------------------------------
(* Files                                                                   *)

\* An add_file written with INSERT OR REPLACE.
add_file_or_replace(s, file) ==
    LET p == create_parent_for_file(s, file.course, file.path)
    IN IF p.raised # "" THEN p
       ELSE query(p.store, FALSE,
                  [p.store EXCEPT !.files = {f \in @ : f.id # file.id} \cup
                      {[id |-> file.id, folder |-> p.value,
                        local_date |-> file.local_date, version |-> 0]}])

add_file(s, file) ==
    LET p == create_parent_for_file(s, file.course, file.path)
    IN IF p.raised # "" THEN p
       ELSE query(p.store, files_conflict(p.store, file.id),
                  [p.store EXCEPT !.files = @ \cup
                      {[id |-> file.id, folder |-> p.value,
                        local_date |-> file.local_date, version |-> 0]}])

\* UPDATE files SET folder = :par, ..., local_date = :local,
\*     version = version + 1 WHERE id = :id
update_files_row(s, file, parent) ==
    [s EXCEPT !.files =
        {IF f.id = file.id
         THEN [f EXCEPT !.folder = parent, !.local_date = file.local_date,
                        !.version = @ + 1]
         ELSE f : f \in @}]

\* A DELETE that clears the file's checkout in the default view only.
delete_file_checkouts_default_view(s, file_id) ==
    [s EXCEPT !.checkouts = {c \in @ : ~(c[2] = file_id /\ c[1] = 0)}]

\* DELETE FROM checkouts WHERE file = :id
delete_file_checkouts(s, file_id) ==
    [s EXCEPT !.checkouts = {c \in @ : c[2] # file_id}]

\* An update_file whose DELETE has no WHERE clause.
update_file_clears_all(s, file) ==
    LET p == create_parent_for_file(s, file.course, file.path)
        u == query(p.store, FALSE, update_files_row(p.store, file, p.value))
    IN IF p.raised # "" THEN p
       ELSE query(u.store, FALSE, [u.store EXCEPT !.checkouts = {}])

update_file(s, file) ==
    LET p == create_parent_for_file(s, file.course, file.path)
        u == query(p.store, FALSE, update_files_row(p.store, file, p.value))
    IN IF p.raised # "" THEN p
       ELSE query(u.store, FALSE, delete_file_checkouts(u.store, file.id))

\* An update_file_local_date that counts as a change of the file.
update_file_local_date_bumps(s, file_id, local_date) ==
    query(s, FALSE,
          [s EXCEPT !.files =
              {IF f.id = file_id
               THEN [f EXCEPT !.local_date = local_date, !.version = @ + 1]
               ELSE f : f \in @}])

update_file_local_date(s, file_id, local_date) ==
    query(s, FALSE,
          [s EXCEPT !.files =
              {IF f.id = file_id THEN [f EXCEPT !.local_date = local_date]
               ELSE f : f \in @}])

-----------------------------------------------------------------------------
(* Views and checkouts                                                     *)

add_view(s, view) ==
    query(s, views_conflict(s, view), [s EXCEPT !.views = @ \cup {view}])

remove_view(s, view_id) ==
    query(s, FALSE, [s EXCEPT !.views = {v \in @ : v.id # view_id}])

\* The row list_files(full=True) returns for a file id.
file_row(s, file_id) == CHOOSE f \in s.files : f.id = file_id

\* The file ids list_checkouts returns (as a set: the claims read membership).
list_checkouts(s, view_id) == {c[2] : c \in {d \in s.checkouts : d[1] = view_id}}

add_checkout(s, view_id, file_id) ==
    query(s, checkouts_conflict(s, view_id, file_id),
          [s EXCEPT !.checkouts = @ \cup {<<view_id, file_id>>}])

\* A reset_checkouts whose DELETE has no WHERE clause.
reset_checkouts_of_all_views(s, view_id) ==
    query(s, FALSE, [s EXCEPT !.checkouts = {}])

reset_checkouts(s, view_id) ==
    query(s, FALSE, [s EXCEPT !.checkouts = {c \in @ : c[1] # view_id}])

\* needs_checkout(v, f): f is absent from list_checkouts(v).
needs_checkout(s, view_id, file_id) == file_id \notin list_checkouts(s, view_id)

-----------------------------------------------------------------------------
(* File names                                                              *)
(* A name is a sequence of characters, so that formatting is computed.     *)

Digits == <<"0", "1", "2", "3", "4", "5", "6", "7", "8", "9">>

\* str(n) for n >= 0
RECURSIVE str(_)
str(n) == IF n < 10 THEN <<Digits[n + 1]>> ELSE str(n \div 10) \o <<Digits[(n % 10) + 1]>>

\* The largest index of character c in name, 0 if there is none (str.rfind + 1).
rfind(name, c) ==
    LET hits == {i \in 1..Len(name) : name[i] = c}
    IN IF hits = {} THEN 0 ELSE Max(hits)

\* os.path.splitext: the extension starts at the last dot of the last path
\* component, unless only dots precede it in that component.
splitext(name) ==
    LET sep == rfind(name, "/")
        dot == rfind(name, ".")
    IN IF dot > sep /\ \E i \in (sep + 1)..(dot - 1) : name[i] # "."
       THEN <<SubSeq(name, 1, dot - 1), SubSeq(name, dot, Len(name))>>
       ELSE <<name, <<>>>>

BackupInfix == <<".", "b", "a", "c", "k", "u", "p", "-", "s", "c", "h", "e", "m", "a">>
DashInfix == <<"-", "b", "a", "c", "k", "u", "p", "-", "s", "c", "h", "e", "m", "a">>

\* A backup name that appends "-backup-schema<version>" to the store's name.
backup_file_suffixed(name, version) == name \o DashInfix \o str(version)

\* "{}.backup-schema{}{}".format(base_name, db_version, ext)
backup_file(name, version) ==
    LET parts == splitext(name)
    IN parts[1] \o BackupInfix \o str(version) \o parts[2]

\* shutil.copyfile(src, dst): dst is created or overwritten.
copyfile(files, name, content) ==
    {b \in files : b.name # name} \cup {[name |-> name, content |-> content]}

-----------------------------------------------------------------------------
(* Database.__init__                                                       *)

\* An __init__ that sets user_version before it runs the migration scripts.
init_statements_version_first(v) ==
    IF v < schema_version
    THEN IF v \in {9, 11}
         THEN <<"backup", "user_version">>
              \o (IF v < 11 THEN <<"migrate-9-11.sql">> ELSE <<>>)
              \o (IF v < 12 THEN <<"migrate-11-12.sql">> ELSE <<>>)
         ELSE IF v # 0 THEN <<"raise">>
         ELSE <<"user_version", "setup.sql", "add_view">>
    ELSE IF v > schema_version THEN <<"raise">>
    ELSE <<>>

\* An __init__ that takes every version from 9 on for one it can migrate.
init_statements_migrates_10(v) ==
    IF v < schema_version
    THEN IF v >= 9
         THEN <<"backup">>
              \o (IF v < 11 THEN <<"migrate-9-11.sql">> ELSE <<>>)
              \o (IF v < 12 THEN <<"migrate-11-12.sql">> ELSE <<>>)
              \o <<"user_version">>
         ELSE IF v # 0 THEN <<"raise">>
         ELSE <<"user_version", "setup.sql", "add_view">>
    ELSE IF v > schema_version THEN <<"raise">>
    ELSE <<>>

\* The statements __init__ executes once it has read db_version, in order.
\* A version-11 store skips migrate-9-11.sql; "raise" ends __init__ with
\* DatabaseVersionError.
init_statements(v) ==
    IF v < schema_version
    THEN IF v \in {9, 11}
         THEN <<"backup">>
              \o (IF v < 11 THEN <<"migrate-9-11.sql">> ELSE <<>>)
              \o (IF v < 12 THEN <<"migrate-11-12.sql">> ELSE <<>>)
              \o <<"user_version">>
         ELSE IF v # 0 THEN <<"raise">>
         ELSE <<"user_version", "setup.sql", "add_view">>
    ELSE IF v > schema_version THEN <<"raise">>
    ELSE <<>>

\* The statement __init__ executes next, "" when it is not running.
next_statement ==
    IF pc = "init" /\ Len(steps) < Len(init_statements(db_version))
    THEN init_statements(db_version)[Len(steps) + 1]
    ELSE ""

\* The statement `name` has been executed: __init__ goes on, or returns.
Executed(name) ==
    /\ steps' = Append(steps, name)
    /\ pc' = IF Len(steps) + 1 = Len(init_statements(db_version))
             THEN "open" ELSE "init"

\* setup.sql creates the tables of the current schema.
setup_sql(s) == [s EXCEPT !.layout = schema_version]

\* A migration script rewrites the tables from one layout to the next and
\* keeps the rows.
migrate(s, from, to) == [s EXCEPT !.layout = to]

\* connect(self); db_version, = self.query("PRAGMA user_version", ...)
Connect ==
    /\ pc = "closed"
    /\ db_version' = disk.user_version
    /\ conn' = disk
    /\ steps' = <<>>
    /\ error' = ""
    /\ pc' = IF init_statements(disk.user_version) = <<>> THEN "open" ELSE "init"
    /\ UNCHANGED <<call, race, file_name, disk, backups>>

\* conn.close(); shutil.copyfile(file_name, backup_file); connect(self)
Backup ==
    /\ next_statement = "backup"
    /\ backups' = copyfile(backups, backup_file(file_name, db_version), disk)
    /\ conn' = disk
    /\ Executed("backup")
    /\ UNCHANGED <<call, race, file_name, disk, db_version, error>>

\* What a migration script can do to tables in layout `layout`: rewrite
\* them when they are in the layout it starts from; otherwise it fails with
\* an sqlite3 error or finds nothing to do.
script_outcomes(layout, from) ==
    IF layout = from THEN {"migrated"} ELSE {"failed", "nothing"}

\* query_script_file(name): executescript commits the pending transaction
\* and runs the script in the file.  A failing script ends __init__.
Migrate(name, from, to) ==
    /\ next_statement = name
    /\ \E outcome \in script_outcomes(conn.layout, from) :
          /\ disk' = IF outcome = "migrated" THEN migrate(conn, from, to) ELSE conn
          /\ conn' = disk'
          /\ IF outcome = "failed"
             THEN pc' = "closed" /\ error' = "OperationalError" /\ UNCHANGED steps
             ELSE Executed(name) /\ UNCHANGED error
    /\ UNCHANGED <<call, race, file_name, backups, db_version>>

Migrate_9_11 == Migrate("migrate-9-11.sql", 9, 11)

Migrate_11_12 == Migrate("migrate-11-12.sql", 11, 12)

\* self.query("PRAGMA user_version = " + str(self.schema_version)): no
\* transaction is open, the pragma is written to the file at once.
SetUserVersion ==
    /\ next_statement = "user_version"
    /\ disk' = [disk EXCEPT !.user_version = schema_version]
    /\ conn' = [conn EXCEPT !.user_version = schema_version]
    /\ Executed("user_version")
    /\ UNCHANGED <<call, race, file_name, backups, db_version, error>>

\* self.query_script_file("setup.sql")
Setup ==
    /\ next_statement = "setup.sql"
    /\ disk' = setup_sql(conn)
    /\ conn' = disk'
    /\ Executed("setup.sql")
    /\ UNCHANGED <<call, race, file_name, backups, db_version, error>>

\* self.add_view(View(0, "default")): an INSERT, which opens a transaction.
AddDefaultView ==
    /\ next_statement = "add_view"
    /\ conn' = add_view(conn, DefaultView).store
    /\ Executed("add_view")
    /\ UNCHANGED <<call, race, file_name, disk, backups, db_version, error>>

\* self.conn.close(); raise DatabaseVersionError()
RaiseVersionError ==
    /\ next_statement = "raise"
    /\ pc' = "closed"
    /\ error' = "DatabaseVersionError"
    /\ conn' = disk
    /\ UNCHANGED <<call, race, file_name, disk, backups, db_version, steps>>

-----------------------------------------------------------------------------
(* The process around the Database                                         *)

\* Database.commit: the pending transaction is written to the file.
Commit ==
    /\ pc = "open"
    /\ disk' = conn
    /\ pc' = "open"
    /\ UNCHANGED <<call, race, file_name, backups, conn, db_version, steps, error>>

\* The process ends after open_database without update_database's commit
\* (open_session raises ApplicationExit, or the operation never commits):
\* the pending transaction is discarded with the connection.
Exit ==
    /\ pc = "open"
    /\ pc' = "closed"
    /\ conn' = disk
    /\ UNCHANGED <<call, race, file_name, disk, backups, db_version, steps, error>>

\* The process is killed inside Database.__init__.
Kill ==
    /\ pc = "init"
    /\ pc' = "closed"
    /\ conn' = disk
    /\ UNCHANGED <<call, race, file_name, disk, backups, db_version, steps, error>>

\* Application.clear_cache removes the store file; the next connect creates
\* an empty one.
ClearCache ==
    /\ pc = "closed"
    /\ disk' = EmptyStore
    /\ conn' = EmptyStore
    /\ UNCHANGED <<call, race, file_name, backups, pc, db_version, steps, error>>

-----------------------------------------------------------------------------
(* Calls on an open Database                                               *)

\* The caller invokes a Database method with outcome r: the connection sees
\* its effect, the file does not until commit.
Invoke(r) ==
    /\ pc = "open"
    /\ conn' = r.store
    /\ UNCHANGED <<call, race, file_name, disk, backups, pc, db_version, steps, error>>

\* Room for n more folder rows within the bound `limit`.
FoldersLeft(limit, n) == Cardinality(conn.folders) + n <= limit

AddCourse(limit, course) ==
    /\ FoldersLeft(limit, 1)
    /\ Invoke(add_course(conn, course))

UpdateCourse(course) == Invoke(update_course(conn, course))

DeleteCourse(c) == Invoke(delete_course(conn, c))

UpdateSemesterList(semesters) == Invoke(update_semester_list(conn, semesters))

CreateParentForFile(c, p) ==
    /\ FoldersLeft(MaxResolveFolders, Len(p))
    /\ Invoke(create_parent_for_file(conn, c, p))

AddFile(file) ==
    /\ FoldersLeft(MaxFolders, Len(file.path))
    /\ Invoke(add_file(conn, file))

UpdateFile(file) ==
    /\ FoldersLeft(MaxFolders, Len(file.path))
    /\ \A f \in conn.files : f.id = file.id => f.version < MaxVersion
    /\ Invoke(update_file(conn, file))

UpdateFileLocalDate(f, d) == Invoke(update_file_local_date(conn, f, d))

AddView(view) == Invoke(add_view(conn, view))

RemoveView(id) == Invoke(remove_view(conn, id))

AddCheckout(v, f) == Invoke(add_checkout(conn, v, f))

ResetCheckouts(v) == Invoke(reset_checkouts(conn, v))

-----------------------------------------------------------------------------
(* Specifications                                                          *)

CacheFile == <<"c", "a", "c", "h", "e", ".", "s", "q", "l", "i", "t", "e">>

\* Store paths: with an extension, with a dot in the directory only, and
\* with a leading dot only.
FileNames == {CacheFile, <<"d", ".", "x", "/", "c">>, <<".", "c">>}

\* A store file as some version of the client left it: empty, or with the
\* tables of that version and the default view.
StoredFile(v) ==
    IF v = 0 THEN EmptyStore
    ELSE [EmptyStore EXCEPT !.user_version = v, !.layout = v, !.views = {DefaultView}]

\* No process is running; the store file is at any version.
Init ==
    /\ file_name \in FileNames
    /\ \E v \in 0..MaxStoredVersion : disk = StoredFile(v)
    /\ conn = disk
    /\ backups = {}
    /\ pc = "closed"
    /\ db_version = 0
    /\ steps = <<>>
    /\ error = ""
    /\ call = NoCall
    /\ race = NoRace

OpenActions ==
    \/ Connect
    \/ Backup
    \/ Migrate_9_11
    \/ Migrate_11_12
    \/ SetUserVersion
    \/ Setup
    \/ AddDefaultView
    \/ RaiseVersionError

\* Runs of the application in which every Database.__init__ runs to its end.
Next ==
    \/ OpenActions
    \/ \E view \in ViewArgs : AddView(view)
    \/ Commit
    \/ Exit
    \/ ClearCache

Spec == Init /\ [][Next]_vars

\* Runs in which the process can also be killed inside Database.__init__.
NextCrash ==
    \/ Next
    \/ Kill

SpecCrash == Init /\ [][NextCrash]_vars

\* Database(file_name) has returned on a file that did not exist and the
\* semester of the feed has been stored: the tables and user_version are in
\* the file, the default view and the semester are in the pending
\* transaction.
InitStore ==
    /\ file_name = CacheFile
    /\ backups = {}
    /\ disk = [EmptyStore EXCEPT !.user_version = schema_version,
                                 !.layout = schema_version]
    /\ conn = [disk EXCEPT !.views = {DefaultView}, !.semesters = {DefaultSemester}]
    /\ pc = "open"
    /\ db_version = 0
    /\ steps = <<"user_version", "setup.sql", "add_view">>
    /\ error = ""
    /\ call = NoCall
    /\ race = NoRace

AltView == [id |-> 1, name |-> "alt"]

\* A session of file operations on a new store, on the files of one course
\* that is added and deleted.
NextFiles ==
    \/ AddCourse(MaxFolders, Course("c1"))
    \/ DeleteCourse("c1")
    \/ \E file \in FileArgs : AddFile(file)
    \/ \E file \in FileArgs : UpdateFile(file)
    \/ \E f \in FileIds, d \in Dates \cup {NoRow} : UpdateFileLocalDate(f, d)
    \/ \E v \in ViewIds, f \in FileIds : AddCheckout(v, f)
    \/ \E v \in ViewIds : ResetCheckouts(v)
    \/ AddView(AltView)
    \/ RemoveView(AltView.id)

SpecFiles == InitStore /\ [][NextFiles]_vars

\* A session of folder resolutions on a new store.
NextResolve ==
    \/ \E c \in CourseIds : AddCourse(MaxResolveFolders, Course(c))
    \/ \E c \in CourseIds : DeleteCourse(c)
    \/ \E c \in CourseIds, p \in Paths : CreateParentForFile(c, p)

SpecResolve == InitStore /\ [][NextResolve]_vars

\* Database(file_name) has returned on a file that did not exist.
InitCourses ==
    /\ file_name = CacheFile
    /\ backups = {}
    /\ disk = [EmptyStore EXCEPT !.user_version = schema_version,
                                 !.layout = schema_version]
    /\ conn = [disk EXCEPT !.views = {DefaultView}]
    /\ pc = "open"
    /\ db_version = 0
    /\ steps = <<"user_version", "setup.sql", "add_view">>
    /\ error = ""
    /\ call = NoCall
    /\ race = NoRace

SemesterLists == SeqsUpTo(SemesterArgs, MaxSemesters)

\* A session of semester and course operations on a new store.
NextCourses ==
    \/ \E semesters \in SemesterLists : UpdateSemesterList(semesters)
    \/ \E course \in CourseArgs : AddCourse(MaxFolders, course)
    \/ \E course \in CourseArgs : UpdateCourse(course)
    \/ \E c \in CourseIds : DeleteCourse(c)

SpecCourses == InitCourses /\ [][NextCourses]_vars

\* A session of view and checkout operations on a new store.
NextViews ==
    \/ \E view \in ViewArgs : AddView(view)
    \/ \E id \in ViewIds : RemoveView(id)
    \/ \E v \in ViewIds, f \in FileIds : AddCheckout(v, f)
    \/ \E v \in ViewIds : ResetCheckouts(v)
    \/ Commit

SpecViews == InitStore /\ [][NextViews]_vars

-----------------------------------------------------------------------------
(* Two processes resolving folders on one store file                       *)
(* Each process has its own connection.  A connection sees the file and    *)
(* its own pending rows; the first INSERT of a transaction takes SQLite's  *)
(* write lock, which the process keeps until it commits or ends, and an    *)
(* INSERT of the other process meanwhile fails with sqlite3's              *)
(* OperationalError (database is locked) when the busy timeout is over.    *)

Procs == {1, 2}

\* A process with no resolve operation in progress and nothing pending.
IdleProc ==
    [pending |-> {}, at |-> "", course |-> NULL, path |-> <<>>,
     parent |-> NoRow, raised |-> "", value |-> NoRow]

\* What the connection of process p sees.
View(p) == [disk EXCEPT !.folders = @ \cup race.procs[p].pending]

\* folders: a uniqueness constraint on (parent, name); NULL parents are
\* distinct.
folders_conflict(s, parent, name) ==
    \E f \in s.folders : f.parent # NoRow /\ f.parent = parent /\ f.name = name

\* parent, = rows[0], then the next folder of the path or `return parent`.
Descend(pr, id) ==
    IF pr.path = <<>> \/ Tail(pr.path) = <<>>
    THEN [pr EXCEPT !.at = "", !.path = <<>>, !.parent = id, !.value = id]
    ELSE [pr EXCEPT !.at = "lookup", !.path = Tail(@), !.parent = id]

\* The exception leaves create_parent_for_file and ends the process: its
\* transaction is rolled back and its lock released.
Raise(p, name) ==
    race' = [lock |-> IF race.lock = p THEN 0 ELSE race.lock,
             procs |-> [race.procs EXCEPT
                           ![p] = [IdleProc EXCEPT !.raised = name]]]

\* Process p goes on as pr; the lock is as before.
Step(p, pr) == race' = [race EXCEPT !.procs[p] = pr]

RaceFrame == UNCHANGED <<file_name, disk, backups, conn, pc, db_version, steps, error, call>>

\* create_parent_for_file(file) is called in process p.
Resolve(p, c, path) ==
    /\ race.procs[p].at = ""
    /\ Cardinality(View(p).folders) + Len(path) <= MaxResolveFolders
    /\ Step(p, [race.procs[p] EXCEPT !.at = "root", !.course = c, !.path = path,
                                     !.parent = NoRow, !.raised = "", !.value = NoRow])
    /\ RaceFrame

\* SELECT root FROM courses WHERE id = :course; parent, = rows[0]
SelectRoot(p) ==
    LET pr == race.procs[p]
        rows == {c.root : c \in {d \in View(p).courses : d.id = pr.course}}
    IN /\ pr.at = "root"
       /\ IF rows = {} THEN Raise(p, "IndexError")
          ELSE IF pr.path = <<>> THEN Step(p, Descend(pr, first_row(rows)))
          ELSE Step(p, [pr EXCEPT !.at = "lookup", !.parent = first_row(rows)])
       /\ RaceFrame

\* rows = query_subdirectory(); if not rows: ...
Lookup(p) ==
    LET pr == race.procs[p]
        rows == query_subdirectory(View(p), pr.parent, Head(pr.path))
    IN /\ pr.at = "lookup"
       /\ IF rows = {} THEN Step(p, [pr EXCEPT !.at = "insert"])
          ELSE Step(p, Descend(pr, first_row(rows)))
       /\ RaceFrame

\* self.query("INSERT INTO folders (name, parent) ...", expected_rows=0):
\* locked out by the other process's transaction it raises; on a
\* uniqueness conflict query swallows the IntegrityError.
InsertFolder(p) ==
    LET pr == race.procs[p]
        r == query(View(p), folders_conflict(View(p), pr.parent, Head(pr.path)),
                   insert_folder(View(p), Head(pr.path), pr.parent))
    IN /\ pr.at = "insert"
       /\ IF race.lock \notin {0, p} THEN Raise(p, "OperationalError")
          ELSE race' = [lock |-> p,
                        procs |-> [race.procs EXCEPT
                            ![p] = [pr EXCEPT !.at = "reread",
                                              !.pending = r.store.folders \ disk.folders]]]
       /\ RaceFrame

\* rows = query_subdirectory(); parent, = rows[0]
Reread(p) ==
    LET pr == race.procs[p]
        rows == query_subdirectory(View(p), pr.parent, Head(pr.path))
    IN /\ pr.at = "reread"
       /\ IF rows = {} THEN Raise(p, "IndexError")
          ELSE Step(p, Descend(pr, first_row(rows)))
       /\ RaceFrame

\* Database.commit in process p, between two calls.
CommitProc(p) ==
    /\ race.lock = p
    /\ race.procs[p].at = ""
    /\ disk' = View(p)
    /\ conn' = disk'
    /\ race' = [lock |-> 0, procs |-> [race.procs EXCEPT ![p].pending = {}]]
    /\ UNCHANGED <<file_name, backups, pc, db_version, steps, error, call>>

\* A new store with the course "c1" committed, opened by two processes.
RaceStore ==
    add_course([EmptyStore EXCEPT !.user_version = schema_version,
                                  !.layout = schema_version,
                                  !.views = {DefaultView},
                                  !.semesters = {DefaultSemester}], Course("c1")).store

InitRace ==
    /\ file_name = CacheFile
    /\ backups = {}
    /\ disk = RaceStore
    /\ conn = disk
    /\ pc = "open"
    /\ db_version = schema_version
    /\ steps = <<>>
    /\ error = ""
    /\ call = NoCall
    /\ race = [lock |-> 0, procs |-> [p \in Procs |-> IdleProc]]

NextRace ==
    \/ \E p \in Procs, path \in Paths : Resolve(p, "c1", path)
    \/ \E p \in Procs : SelectRoot(p)
    \/ \E p \in Procs : Lookup(p)
    \/ \E p \in Procs : InsertFolder(p)
    \/ \E p \in Procs : Reread(p)
    \/ \E p \in Procs : CommitProc(p)

SpecRace == InitRace /\ [][NextRace]_vars

-----------------------------------------------------------------------------
(* Abbreviations of File objects                                           *)

\* An abbreviation given explicitly; <<>> stands for None and for "",
\* which `if self._abbrev` treats alike.
Abbrevs == {<<>>, <<"x">>}

\* File.course_abbrev
File_course_abbrev(file) ==
    IF file.course_abbrev # <<>> THEN file.course_abbrev
    ELSE abbreviate_course_name(file.name)

\* The File objects of list_files(full=True): the fields the abbreviation
\* reads, with the name and abbreviation of the owning course.
FileObjects == [name : Names, course_name : Names, course_abbrev : Abbrevs]

\* The owning course of a File object.
OwningCourse(file) ==
    [name |-> file.course_name,
     abbrev |-> IF file.course_abbrev = <<>> THEN None ELSE Some(file.course_abbrev)]

\* A File object has been built from a row of the store.
InitAbbrev ==
    /\ file_name = CacheFile
    /\ backups = {}
    /\ disk = RaceStore
    /\ conn = disk
    /\ pc = "open"
    /\ db_version = schema_version
    /\ steps = <<>>
    /\ error = ""
    /\ \E file \in FileObjects :
          call = [op |-> "File", at |-> "", arg |-> file, value |-> <<>>]
    /\ race = NoRace

\* file.course_abbrev is read.
CourseAbbrev ==
    /\ call.op = "File"
    /\ call' = [call EXCEPT !.op = "course_abbrev", !.value = File_course_abbrev(call.arg)]
    /\ UNCHANGED <<race, file_name, disk, backups, conn, pc, db_version, steps, error>>

NextAbbrev == CourseAbbrev

SpecAbbrev == InitAbbrev /\ [][NextAbbrev]_vars

-----------------------------------------------------------------------------
(* Storing and reading back Course objects                                 *)

\* The Course objects a caller stores: with and without overrides.
CourseObjects ==
    [id : {"c1"}, semester : {DefaultSemester.name}, sync : {Full},
     name : Names, abbrev : Overrides, type : Types, type_abbrev : Overrides]

\* A call of add_course or update_course, remembered with whether its
\* statement wrote the course's row and, if it did, with its argument.
StoreCourse(op, course, wrote, r) ==
    /\ pc = "open"
    /\ conn' = r.store
    /\ call' = [op |-> op, at |-> IF wrote THEN "stored" ELSE "ignored",
                arg |-> IF wrote THEN course ELSE NULL, value |-> NULL]
    /\ UNCHANGED <<race, file_name, disk, backups, pc, db_version, steps, error>>

AddCourseObject(course) ==
    StoreCourse("add_course", course, ~courses_conflict(conn, course.id),
                add_course(conn, course))

UpdateCourseObject(course) ==
    StoreCourse("update_course", course, courses_conflict(conn, course.id),
                update_course(conn, course))

NextDetails ==
    \/ \E course \in CourseObjects : AddCourseObject(course)
    \/ \E course \in CourseObjects : UpdateCourseObject(course)

SpecDetails == InitStore /\ [][NextDetails]_vars

-----------------------------------------------------------------------------
(* update_database with a user interrupt                                   *)
(* Application.update_database runs the metadata update, catches a         *)
(* KeyboardInterrupt, commits, and raises the interrupt again.  The        *)
(* statements of update_file are separate steps here, because the          *)
(* interrupt can arrive between them.                                      *)

\* parent = self.create_parent_for_file(file); an exception other than
\* KeyboardInterrupt leaves update_database before its commit.
UpdateFileResolve(file) ==
    LET r == create_parent_for_file(conn, file.course, file.path)
    IN /\ pc = "open" /\ call.op = ""
       /\ FoldersLeft(MaxFolders, Len(file.path))
       /\ \A f \in conn.files : f.id = file.id => f.version < MaxVersion
       /\ IF r.raised # ""
          THEN pc' = "closed" /\ conn' = disk /\ call' = NoCall
          ELSE /\ conn' = r.store
               /\ call' = [op |-> "update_file", at |-> "UPDATE", arg |-> file,
                            value |-> r.value]
               /\ pc' = pc
       /\ UNCHANGED <<race, file_name, disk, backups, db_version, steps, error>>

\* self.query("UPDATE files SET ... version = version + 1 WHERE id = :id")
UpdateFileUpdate ==
    /\ pc = "open" /\ call.op = "update_file" /\ call.at = "UPDATE"
    /\ conn' = query(conn, FALSE, update_files_row(conn, call.arg, call.value)).store
    /\ call' = [call EXCEPT !.at = "DELETE"]
    /\ UNCHANGED <<race, file_name, disk, backups, pc, db_version, steps, error>>

\* self.query("DELETE FROM checkouts WHERE file=:id")
UpdateFileDelete ==
    /\ pc = "open" /\ call.op = "update_file" /\ call.at = "DELETE"
    /\ conn' = query(conn, FALSE, delete_file_checkouts(conn, call.arg.id)).store
    /\ call' = NoCall
    /\ UNCHANGED <<race, file_name, disk, backups, pc, db_version, steps, error>>

\* except KeyboardInterrupt as e: interrupt = e.  The interrupt ends the
\* call in progress wherever it is.
Interrupt ==
    /\ pc = "open"
    /\ pc' = "interrupted"
    /\ call' = NoCall
    /\ UNCHANGED <<race, file_name, disk, backups, conn, db_version, steps, error>>

\* self.database.commit(); if interrupt: raise interrupt
CommitUpdate ==
    /\ pc \in {"open", "interrupted"} /\ call.op = ""
    /\ disk' = conn
    /\ pc' = IF pc = "interrupted" THEN "closed" ELSE "open"
    /\ error' = IF pc = "interrupted" THEN "KeyboardInterrupt" ELSE error
    /\ UNCHANGED <<call, race, file_name, backups, conn, db_version, steps>>

\* The store an earlier run has committed: the course c1 with both files
\* at version 0 and some checkouts.
SyncedStore(checkouts) ==
    LET file(id) == [id |-> id, course |-> "c1", path |-> <<>>, local_date |-> NoRow]
        s1 == add_file(RaceStore, file("f1")).store
        s2 == add_file(s1, file("f2")).store
    IN [s2 EXCEPT !.checkouts = checkouts]

InitInterrupt ==
    /\ file_name = CacheFile
    /\ backups = {}
    /\ \E checkouts \in SUBSET (ViewIds \X FileIds) : disk = SyncedStore(checkouts)
    /\ conn = disk
    /\ pc = "open"
    /\ db_version = schema_version
    /\ steps = <<>>
    /\ error = ""
    /\ call = NoCall
    /\ race = NoRace

NextInterrupt ==
    \/ \E file \in FileArgs : UpdateFileResolve(file)
    \/ UpdateFileUpdate
    \/ UpdateFileDelete
    \/ Interrupt
    \/ CommitUpdate

SpecInterrupt == InitInterrupt /\ [][NextInterrupt]_vars

-----------------------------------------------------------------------------
(* Claims about files and checkouts, checked under SpecFiles               *)

\* The checkout rows of files other than file_id.
OtherCheckouts(s, file_id) == {c \in s.checkouts : c[2] # file_id}

\* C1: an update_file(f) call that returns, on a file f the store holds,
\* leaves f's version exactly 1 greater and no checkout row (v, f) for any
\* view v; the versions and the checkout rows of every other file are as
\* before.
C1_UpdateFileBumpsVersionAndClearsCheckouts ==
    [][\A file \in FileArgs :
          (/\ UpdateFile(file)
           /\ files_conflict(conn, file.id)
           /\ update_file(conn, file).raised = "")
          => /\ files_conflict(conn', file.id)
             /\ file_row(conn', file.id).version = file_row(conn, file.id).version + 1
             /\ \A c \in conn'.checkouts : c[2] # file.id
             /\ OtherCheckouts(conn', file.id) = OtherCheckouts(conn, file.id)
             /\ \A g \in conn.files : g.id # file.id => g \in conn'.files]_vars

\* C1 witness: a file was updated twice and has no checkout, while the
\* other file is still checked out in both views at version 0.
C1_Witness ==
    /\ files_conflict(conn, "f1") /\ files_conflict(conn, "f2")
    /\ file_row(conn, "f1").version = 2
    /\ \A v \in ViewIds : needs_checkout(conn, v, "f1")
    /\ file_row(conn, "f2").version = 0
    /\ \A v \in ViewIds : ~needs_checkout(conn, v, "f2")
    /\ file_row(conn, "f2").version = 0
    /\ list_checkouts(conn, 0) = {"f2"}
    /\ list_checkouts(conn, 1) = {"f2"}

\* C2: update_file_local_date changes only the file's local_date: its
\* version and folder, every checkout row, every other file and every other
\* table are as before.
C2_LocalDateOnly ==
    [][\A f \in FileIds, d \in Dates \cup {NoRow} :
          UpdateFileLocalDate(f, d)
          => /\ conn'.checkouts = conn.checkouts
             /\ conn'.folders = conn.folders
             /\ conn'.courses = conn.courses
             /\ conn'.views = conn.views
             /\ \A g \in conn.files : g.id # f => g \in conn'.files
             /\ files_conflict(conn', f) = files_conflict(conn, f)
             /\ files_conflict(conn, f)
                => file_row(conn', f) = [file_row(conn, f) EXCEPT !.local_date = d]]_vars

\* C2 witness: a file that was updated and checked out has got a local
\* date, which only update_file_local_date sets.
C2_Witness ==
    /\ files_conflict(conn, "f1")
    /\ file_row(conn, "f1").local_date = 1
    /\ file_row(conn, "f1").version = 1
    /\ list_checkouts(conn, 0) = {"f1"}

\* C3: after an update_file(f) call that returns, needs_checkout(v, f) is
\* true for every view v, and a step makes needs_checkout(v, f) false only
\* if it is add_checkout(v, f).
C3_NeedsCheckoutUntilRecorded ==
    [][/\ \A file \in FileArgs :
             (UpdateFile(file) /\ update_file(conn, file).raised = "")
             => \A v \in ViewIds : needs_checkout(conn', v, file.id)
       /\ \A v \in ViewIds, f \in FileIds :
             (needs_checkout(conn, v, f) /\ ~needs_checkout(conn', v, f))
             => AddCheckout(v, f)]_vars

\* C3 witness: a file was updated, which cleared its checkouts, and has
\* been checked out again in one view and not yet in the other.
C3_Witness ==
    /\ files_conflict(conn, "f1")
    /\ file_row(conn, "f1").version = 1
    /\ ~needs_checkout(conn, 1, "f1")
    /\ needs_checkout(conn, 0, "f1")

\* C4: no store operation removes a file or decreases its version; a file
\* that appears starts at version 0; add_file for an id the store holds
\* leaves the files table as it is.
C4_VersionNeverDecreases ==
    [][/\ \A f \in conn.files :
             /\ files_conflict(conn', f.id)
             /\ file_row(conn', f.id).version >= f.version
       /\ \A f \in conn'.files :
             ~files_conflict(conn, f.id) => f.version = 0
       /\ \A file \in FileArgs :
             (AddFile(file) /\ files_conflict(conn, file.id))
             => conn'.files = conn.files]_vars

\* C4 witness: both files exist, one updated to the largest version of the
\* model and one never updated.
C4_Witness ==
    /\ files_conflict(conn, "f1") /\ files_conflict(conn, "f2")
    /\ file_row(conn, "f1").version = MaxVersion
    /\ file_row(conn, "f2").version = 0

-----------------------------------------------------------------------------
(* Claims about folder resolution, checked under SpecResolve               *)

\* C10: for a course the store holds and any path, a second
\* create_parent_for_file with the same arguments returns the folder id the
\* first returned and leaves the folder rows as the first left them.
C10_ResolveIdempotent ==
    \A c \in CourseIds, p \in Paths :
        LET first == create_parent_for_file(conn, c, p)
            second == create_parent_for_file(first.store, c, p)
        IN courses_conflict(conn, c)
           => /\ first.raised = ""
              /\ second.raised = ""
              /\ second.value = first.value
              /\ second.store.folders = first.store.folders

\* C10 witness: a path of two folders has been resolved under the root of a
\* course the store holds, next to a sibling folder.
C10_Witness ==
    \E c \in conn.courses : \E x, y, z \in conn.folders :
        /\ x.parent = c.root /\ x.name = "a"
        /\ y.parent = x.id /\ y.name = "b"
        /\ z.parent = c.root /\ z.name = "b"

-----------------------------------------------------------------------------
(* Claims about opening the store, checked under Spec and SpecCrash        *)

DefaultViews(s) == {v \in s.views : v.name = "default"}

\* C5: whenever Database(file_name) has returned, however earlier runs
\* ended, the store is at schema_version 12 and holds exactly one view
\* named "default".
C5_OpenedStoreHasDefaultView ==
    pc = "open"
    => /\ conn.user_version = schema_version
       /\ Cardinality(DefaultViews(conn)) = 1

EndsWith(name, suffix) ==
    /\ Len(name) >= Len(suffix)
    /\ SubSeq(name, Len(name) - Len(suffix) + 1, Len(name)) = suffix

\* name is store with `infix` inserted before store's extension: after
\* the whole of store when its last component has no dot after its first
\* character, before the last dot otherwise.
InsertedBeforeExtension(name, store, infix) ==
    \E i \in 0..Len(store) :
        LET base == SubSeq(store, 1, i)
            ext == SubSeq(store, i + 1, Len(store))
        IN /\ name = base \o infix \o ext
           /\ \A k \in 2..Len(ext) : ext[k] \notin {".", "/"}
           /\ IF ext = <<>>
              THEN \A k \in 1..Len(store) :
                      store[k] = "." => (k = 1 \/ \E j \in k..Len(store) : store[j] = "/")
              ELSE ext[1] = "." /\ base # <<>> /\ base[Len(base)] # "/"

Schema9 == <<".", "b", "a", "c", "k", "u", "p", "-", "s", "c", "h", "e", "m", "a", "9">>

IsPrefix(s, full) == Len(s) <= Len(full) /\ s = SubSeq(full, 1, Len(s))

MigrationOrder(v) ==
    IF v = 9
    THEN <<"backup", "migrate-9-11.sql", "migrate-11-12.sql", "user_version">>
    ELSE <<"backup", "migrate-11-12.sql", "user_version">>

Incompatible(v) == v > schema_version \/ v \in (1..8) \cup {10}

C9_BackupNeverOverwritten ==
    [][\A b \in backups : b \in backups']_vars

-----------------------------------------------------------------------------
(* Claims about two processes, checked under SpecRace                      *)

\* No connection sees two folders with the same name under the same parent.
NoDuplicateSiblings ==
    \A p \in Procs : \A x, y \in View(p).folders :
        (x.parent # NoRow /\ x.parent = y.parent /\ x.name = y.name) => x = y

\* C11: when two resolve operations interleave statement by statement, no
\* state has two folders with the same name under the same parent, and no
\* operation raises: the one that loses the insert race re-reads the
\* existing row and returns its id.
C11_RaceNeverDuplicatesNeverRaises ==
    /\ NoDuplicateSiblings
    /\ \A p \in Procs : race.procs[p].raised = ""

-----------------------------------------------------------------------------
(* Claims about semesters and courses, checked under SpecCourses           *)

\* C12: in both projections list_courses returns exactly the courses of
\* the table whose sync mode is selected, and a course that add_course is
\* called with (and returns for) is then among the courses that
\* list_courses returns for the filter of all three modes, whatever its
\* semester name.
C12_ListCoursesReturnsSelectedAndAdded ==
    pc = "open" =>
    /\ \A full \in BOOLEAN, modes \in SUBSET SyncModes :
          list_courses(conn, full, modes)
              = {c.id : c \in {d \in conn.courses : d.sync \in modes}}
    /\ \A course \in CourseArgs :
          LET added == add_course(conn, course)
          IN added.raised = ""
             => \A full \in BOOLEAN : course.id \in list_courses(added.store, full, SyncModes)

\* The ids of the semesters in a list.
ListedIds(semesters) == {semesters[i].id : i \in 1..Len(semesters)}

\* The last semester with this id in a list.
LastListed(semesters, id) ==
    semesters[Max({i \in 1..Len(semesters) : semesters[i].id = id})]

\* C18: update_semester_list is an idempotent upsert keyed by id: for every
\* store and every list, applying the list twice gives the semesters that
\* applying it once gives; afterwards each listed id has one row, with the
\* name and order the list gives it, and the rows of the other ids are as
\* before.
C18_SemesterUpsertIdempotent ==
    pc = "open" =>
    \A semesters \in SemesterLists :
        LET once == update_semester_list(conn, semesters).store
            twice == update_semester_list(once, semesters).store
        IN /\ twice.semesters = once.semesters
           /\ \A id \in ListedIds(semesters) :
                 {m \in once.semesters : m.id = id} = {LastListed(semesters, id)}
           /\ {m \in once.semesters : m.id \notin ListedIds(semesters)}
                 = {m \in conn.semesters : m.id \notin ListedIds(semesters)}

\* C18 witness: both semesters are stored, under the same name, and a
\* course of the semester s1 is stored.
C18_Witness ==
    /\ pc = "open"
    /\ conn.semesters = {[id |-> "s1", name |-> "SS", ord |-> 1],
                         [id |-> "s2", name |-> "SS", ord |-> 1]}
    /\ \E c \in conn.courses : c.semester = "s1"

-----------------------------------------------------------------------------
(* Claims about failing calls, checked under SpecFiles                     *)

\* C13: an update_file, update_course or update_file_local_date call whose
\* id is not in the store fails with NotFound and leaves the store as it
\* was (update_file creates no folders); a delete_course of an id that is
\* not in the store returns normally and leaves the store as it was.
C13_UpdateOfMissingIdFails ==
    pc = "open" =>
    /\ \A file \in FileArgs :
          ~files_conflict(conn, file.id)
          => /\ update_file(conn, file).raised = "NotFound"
             /\ update_file(conn, file).store = conn
             /\ update_file_local_date(conn, file.id, 1).raised = "NotFound"
             /\ update_file_local_date(conn, file.id, 1).store = conn
    /\ \A course \in CourseArgs :
          ~courses_conflict(conn, course.id)
          => /\ update_course(conn, course).raised = "NotFound"
             /\ update_course(conn, course).store = conn
             /\ delete_course(conn, course.id).raised = ""
             /\ delete_course(conn, course.id).store = conn

\* C14: an add_file or update_file call in which a step fails (the call
\* raises, or add_file's INSERT hits the primary key of a stored file)
\* leaves the store as it was before the call, without folders from the
\* resolution step.
C14_FailedCallLeavesStoreUnchanged ==
    pc = "open" =>
    \A file \in FileArgs :
        /\ (add_file(conn, file).raised # "" \/ files_conflict(conn, file.id))
           => add_file(conn, file).store = conn
        /\ update_file(conn, file).raised # ""
           => update_file(conn, file).store = conn

\* C17: reset_checkouts(v) returns normally and leaves no checkout row of
\* view v, so that needs_checkout(v, f) is true for every file f, while the
\* checkout rows of every other view, the file rows (with their versions)
\* and the views are as before.
C17_ResetCheckoutsOfOneView ==
    pc = "open" =>
    \A v \in ViewIds :
        LET r == reset_checkouts(conn, v)
        IN /\ r.raised = ""
           /\ \A f \in FileIds : needs_checkout(r.store, v, f)
           /\ {c \in r.store.checkouts : c[1] # v} = {c \in conn.checkouts : c[1] # v}
           /\ r.store.files = conn.files
           /\ r.store.views = conn.views

\* C17 witness: both files are stored, one of them updated; the view 0 has
\* no checkout and the view 1 has a checkout of each file.
C17_Witness ==
    /\ files_conflict(conn, "f1") /\ files_conflict(conn, "f2")
    /\ file_row(conn, "f1").version = 1
    /\ list_checkouts(conn, 0) = {}
    /\ list_checkouts(conn, 1) = FileIds

-----------------------------------------------------------------------------
(* Claims about views, checked under SpecViews                             *)

\* C16: in every state of an opened store, whatever add_view, remove_view
\* and the other operations did, exactly one view is named "default".
C16_ExactlyOneDefaultView ==
    pc = "open" => \E v \in conn.views : DefaultViews(conn) = {v}

-----------------------------------------------------------------------------
(* Claims about the folder tree, checked under SpecResolve                 *)

\* A folder row that is the root of a course.
IsCourseRoot(f) == f.course # NULL /\ f.parent = NoRow

\* Following parent references from f reaches a course root in at most n
\* steps.
RECURSIVE ReachesRoot(_, _, _)
ReachesRoot(s, f, n) ==
    \/ IsCourseRoot(f)
    \/ /\ n > 0
       /\ \E g \in s.folders : g.id = f.parent /\ ReachesRoot(s, g, n - 1)

-----------------------------------------------------------------------------
(* Claims about the interrupted update, checked under SpecInterrupt        *)

\* The version of the stored file with this id, -1 when it is not stored.
VersionIn(s, id) == IF files_conflict(s, id) THEN file_row(s, id).version ELSE -1

\* C15: whatever update_database commits, with or without an interrupt,
\* holds whole operations only: a file whose committed version has grown
\* has no committed checkout row (no checkout is recorded during the
\* metadata update, so such a row was recorded before the increment).
C15_CommitHoldsWholeUpdates ==
    [][disk' # disk
       => \A f \in FileIds :
             VersionIn(disk', f) > VersionIn(disk, f)
             => \A c \in disk'.checkouts : c[2] # f]_vars

-----------------------------------------------------------------------------
(* Claims about abbreviations, checked under SpecAbbrev                    *)

\* C20: for a File object without an explicit course abbreviation,
\* course_abbrev is the abbrev of the owning course, the abbreviation
\* derived from the course's name, whatever the file's own name is.
C20_FileCourseAbbrevIsCourseAbbrev ==
    (call.op = "course_abbrev" /\ call.arg.course_abbrev = <<>>)
    => call.value = Course_abbrev(OwningCourse(call.arg))

-----------------------------------------------------------------------------
(* Claims about stored Course objects, checked under SpecDetails           *)

\* The Course object has no abbrev and no type_abbrev override.
NoOverride(course) == Course_auto_abbrev(course) /\ Course_auto_type_abbrev(course)

\* The course is loaded, renamed and stored again: the abbreviation of the
\* course loaded afterwards.
AbbrevAfterRename(s, course_id, name) ==
    LET loaded == get_course_details(s, course_id).value
        renamed == [loaded EXCEPT !.name = name]
        later == update_course(s, renamed).store
    IN Course_abbrev(get_course_details(later, course_id).value)

\* The last call wrote the row of a Course object without overrides.
StoredWithoutOverride(op) ==
    /\ call.op = op
    /\ call.at = "stored"
    /\ NoOverride(call.arg)

\* The course loaded from the store has no overrides, and renaming it
\* gives the abbreviation of the new name.
OverrideStaysAbsent ==
    LET got == get_course_details(conn, call.arg.id)
    IN /\ got.raised = ""
       /\ NoOverride(got.value)
       /\ \A name \in Names :
             AbbrevAfterRename(conn, call.arg.id, name) = abbreviate_course_name(name)

\* C21: after add_course or update_course has stored a Course without an
\* abbrev and type_abbrev override, get_course_details returns a Course
\* whose auto_abbrev and auto_type_abbrev are true, and a later
\* update_course of that Course with a changed name gives the abbreviation
\* derived from the new name.
C21_StoringKeepsOverrideAbsent ==
    (StoredWithoutOverride("add_course") \/ StoredWithoutOverride("update_course"))
    => OverrideStaysAbsent

-----------------------------------------------------------------------------
(* Claims about a killed Database.__init__, checked under SpecCrash        *)

\* The store file holds the tables of the current schema and the default view.
FullStore(s) == HasTables(s) /\ DefaultView \in s.views

\* C22: whenever no Database.__init__ is in progress and the user_version
\* in the store file is the target version, the file holds the full schema
\* and the default view, also after the process was killed inside
\* __init__ on a new file; so a later __init__ that finds the target
\* version finds the tables and the default view.
C22_TargetVersionMeansFullStore ==
    (pc # "init" /\ disk.user_version = schema_version) => FullStore(disk)

-----------------------------------------------------------------------------
(* Claims about the references of checkouts, checked under SpecFiles       *)

\* The checkout row refers to a view of the views table and to a file of
\* the files table.
RefersToViewAndFile(s, c) ==
    /\ \E v \in s.views : v.id = c[1]
    /\ \E f \in s.files : f.id = c[2]

\* C23: in every state of an opened store each checkout row (v, f) refers
\* to a view in views and to a file in files; so remove_view(v) leaves no
\* checkout row of v, and add_checkout with the id of a missing view or
\* file adds no row.
C23_CheckoutsReferToViewsAndFiles ==
    pc = "open" => \A c \in conn.checkouts : RefersToViewAndFile(conn, c)

=============================================================================
